---- MODULE Spec2Model ----
(***************************************************************************)
(* A model of the DeeperDive Publisher Config Tool.                        *)
(*                                                                         *)
(*  - The configuration store: the Express server of src/src/server.ts     *)
(*    (initializeHistory, GET/PUT /api/publisher/:filename, GET            *)
(*    .../versions/:version) working on one publisher file and its         *)
(*    history directory.  Every await of a handler is a scheduling point,  *)
(*    so two PUT requests interleave.  Specification: Spec.                *)
(*  - The editor: PublisherConfiguration with the FormField / ArrayField / *)
(*    ObjectField / PrimitiveField / AddField components it mounts, the    *)
(*    AreYouSure dialog and the API client.  Specification: EditorSpec;    *)
(*    the form without the save path: FieldSpec.                           *)
(*  - The compare view: CompareConfiguration of src/unnamed/part_007 with  *)
(*    its version select and diff rendering.  Specification: CompareSpec.  *)
(*                                                                         *)
(* JSON values are records [t, s, kids]: t the JavaScript kind, s the text *)
(* of a scalar, kids the ordered members (k the key, "" for array items).  *)
(* Key order is kept because JSON.stringify emits keys in insertion order. *)
(***************************************************************************)
EXTENDS Naturals, Sequences, FiniteSets, TLC

VARIABLES
    \* ---- configuration store (server.ts) ----
    serverUp,        \* app.listen has run
    dataFile,        \* data/<file>.json: [st, doc], st in missing|invalid|json
    histDir,         \* data/history/<file>/ exists
    hist,            \* data/history/<file>/v<n>.json: function n -> document
    req,             \* the PUT handlers in progress: ReqIds -> record
    lastResp,        \* the most recent response of a GET handler
    maxReturned,     \* greatest version number a PUT has answered so far
    anyFailed,       \* some PUT answered an error
    origContent,     \* what initializeHistory stored as v1 ([st, doc])
    \* ---- editor (PublisherConfiguration) ----
    phase,           \* loading | ready
    publisherConfig, \* this.publisherConfig (JSON null when unset)
    initialConfig,   \* this.initialConfig, the baseline (JSON null when unset)
    itemTemplate,    \* ArrayField.itemTemplate of each mounted top-level array
    rowIndex,        \* per top-level field: the index bound to each array row
    templateShared,  \* per top-level field: the positions of the array items
                     \* that are the very object held in itemTemplate
    jsonDisplay,     \* text of #json-display, as lines
    dialogs,         \* number of open AreYouSure dialogs
    inflight,        \* PUT requests sent and not yet answered: their bodies
    notice,          \* Snackbar shown by the handler that ran last ("" if none)
    nOps,            \* number of edits made to the document
    loaderMounted,   \* the loader overlay is in the DOM
    \* ---- compare view (CompareConfiguration) ----
    cmpOpen,           \* the modal is open
    baseConfig,        \* this.baseConfig, the left side of the diff
    selected,          \* value of #version-select
    availableVersions, \* this.availableVersions
    fetches,           \* GET requests of the view not yet answered
    diffView,          \* content of #diff-view: one entry per .diff-line
    lineNums,          \* oldLineNum and newLineNum when createDiffHtml returned
    fetchFailed        \* a baseline fetch of the view did not succeed

serverVars == <<serverUp, dataFile, histDir, hist, req, lastResp, maxReturned,
                anyFailed, origContent>>
editorVars == <<phase, publisherConfig, initialConfig, itemTemplate, rowIndex,
                templateShared, jsonDisplay,
                dialogs, inflight, notice, nOps, loaderMounted>>
cmpVars == <<cmpOpen, baseConfig, selected, availableVersions, fetches,
             diffView, lineNums, fetchFailed>>
vars == <<serverVars, editorVars, cmpVars>>

(***************************************************************************)
(* Bounds.                                                                 *)
(***************************************************************************)
MaxVersion == 3      \* no PUT is started once v<MaxVersion>.json exists
MaxOps == 2          \* edits per editing session
MaxPending == 2      \* open dialogs, and requests in flight, at one time

(***************************************************************************)
(* JSON values.                                                            *)
(***************************************************************************)
Str(x) == [t |-> "string", s |-> x, kids |-> <<>>]
Num(x) == [t |-> "number", s |-> x, kids |-> <<>>]
Bool(b) == [t |-> "boolean", s |-> IF b THEN "true" ELSE "false", kids |-> <<>>]
Null == [t |-> "null", s |-> "", kids |-> <<>>]
KV(k, v) == [k |-> k, v |-> v]
Obj(members) == [t |-> "object", s |-> "", kids |-> members]
Arr(items) == [t |-> "array", s |-> "",
               kids |-> [i \in 1..Len(items) |-> KV("", items[i])]]

Keys(v) == {v.kids[i].k : i \in 1..Len(v.kids)}
HasKey(v, k) == k \in Keys(v)
IndexOfKey(v, k) == CHOOSE i \in 1..Len(v.kids) : v.kids[i].k = k
RemoveAt(seq, i) == SubSeq(seq, 1, i - 1) \o SubSeq(seq, i + 1, Len(seq))

\* JSON.stringify(value): the text as a sequence of tokens.  NaN has no JSON
\* form and is written as null.
Tok(k, s) == [k |-> k, s |-> s]

RECURSIVE Stringify(_)
RECURSIVE StringifyKids(_, _, _)
StringifyKids(v, i, acc) ==
    IF i > Len(v.kids) THEN acc
    ELSE LET sep == IF i > 1 THEN <<Tok(",", "")>> ELSE <<>>
             key == IF v.t = "object"
                        THEN <<Tok("str", v.kids[i].k), Tok(":", "")>>
                        ELSE <<>>
         IN StringifyKids(v, i + 1, acc \o sep \o key \o Stringify(v.kids[i].v))
Stringify(v) ==
    CASE v.t = "string" -> <<Tok("str", v.s)>>
      [] v.t = "number" -> IF v.s = "NaN" THEN <<Tok("null", "")>>
                                          ELSE <<Tok("num", v.s)>>
      [] v.t = "boolean" -> <<Tok("bool", v.s)>>
      [] v.t = "null" -> <<Tok("null", "")>>
      [] v.t = "array" ->
            <<Tok("[", "")>> \o StringifyKids(v, 1, <<>>) \o <<Tok("]", "")>>
      [] v.t = "object" ->
            <<Tok("{", "")>> \o StringifyKids(v, 1, <<>>) \o <<Tok("}", "")>>

\* JSON.parse(text) of a well-formed text: [v |-> the value, n |-> the index
\* after it].
RECURSIVE ParseAt(_, _)
RECURSIVE ParseItems(_, _, _)
RECURSIVE ParseMembers(_, _, _)
ParseItems(toks, i, acc) ==
    IF toks[i].k = "]" THEN [v |-> [t |-> "array", s |-> "", kids |-> acc], n |-> i + 1]
    ELSE LET j == IF toks[i].k = "," THEN i + 1 ELSE i
             r == ParseAt(toks, j)
         IN ParseItems(toks, r.n, Append(acc, KV("", r.v)))
ParseMembers(toks, i, acc) ==
    IF toks[i].k = "}" THEN [v |-> Obj(acc), n |-> i + 1]
    ELSE LET j == IF toks[i].k = "," THEN i + 1 ELSE i
             r == ParseAt(toks, j + 2)
         IN ParseMembers(toks, r.n, Append(acc, KV(toks[j].s, r.v)))
ParseAt(toks, i) ==
    CASE toks[i].k = "str" -> [v |-> Str(toks[i].s), n |-> i + 1]
      [] toks[i].k = "num" -> [v |-> Num(toks[i].s), n |-> i + 1]
      [] toks[i].k = "bool" -> [v |-> Bool(toks[i].s = "true"), n |-> i + 1]
      [] toks[i].k = "null" -> [v |-> Null, n |-> i + 1]
      [] toks[i].k = "[" -> ParseItems(toks, i + 1, <<>>)
      [] toks[i].k = "{" -> ParseMembers(toks, i + 1, <<>>)
Parse(toks) == ParseAt(toks, 1).v

\* JSON.parse(JSON.stringify(x)): the deep copy the editor takes.
Clone(v) == Parse(Stringify(v))

(***************************************************************************)
(* The documents of the model.                                             *)
(***************************************************************************)
requiredFields == <<"publisherId", "aliasName", "pages", "publisherDashboard",
                    "monitorDashboard", "qaStatusDashboard">>
IsRequired(k) == \E i \in 1..Len(requiredFields) : requiredFields[i] = k

\* A publisher file: two required fields and one optional object.
DocA == Obj(<<KV("publisherId", Str("aurora")),
              KV("pages", Arr(<<Obj(<<KV("pageType", Str("home"))>>)>>)),
              KV("opts", Obj(<<KV("depth", Num("1"))>>))>>)
\* The same publisher after an edit elsewhere.
DocB == Obj(<<KV("publisherId", Str("borealis")),
              KV("pages", Arr(<<>>))>>)
Bodies == {DocA, DocB}
\* A publisher file with a required object that holds a nested object, and an
\* optional field whose value is null.
DocC == Obj(<<KV("publisherDashboard",
                 Obj(<<KV("url", Str("u")),
                       KV("auth", Obj(<<KV("user", Str("a"))>>))>>)),
              KV("note", Null)>>)
\* A publisher file with optional arrays of numbers and of objects, and a
\* boolean.
DocD == Obj(<<KV("sizes", Arr(<<Num("1"), Num("0")>>)),
              KV("tags", Arr(<<Obj(<<KV("name", Str("a"))>>),
                               Obj(<<KV("name", Str("b"))>>)>>)),
              KV("isActive", Bool(TRUE))>>)
FieldDocs == {DocA, DocB, DocC, DocD}

(***************************************************************************)
(* The configuration store: src/src/server.ts.                             *)
(***************************************************************************)
ReqIds == {"r1", "r2"}
NoFile == [st |-> "missing", doc |-> Null]
BadFile == [st |-> "invalid", doc |-> Null]
JsonFile(doc) == [st |-> "json", doc |-> doc]
IdleReq == [pc |-> "idle", body |-> <<>>, newVersion |-> 0, status |-> 0,
            alone |-> TRUE, startMax |-> 0, prevRet |-> 0, first |-> FALSE]
NoResp == [op |-> "none", seen |-> "none", status |-> 0, error |-> "", doc |-> Null]

Max(S) == CHOOSE x \in S : \A y \in S : y <= x

\* The highest version number stored (0 when there is none).
MaxStored(h) == IF DOMAIN h # {} THEN Max(DOMAIN h) ELSE 0

\* A handler that overwrites the newest version instead of adding one.
NextVersionNoIncrement(versions) == IF versions # {} THEN Max(versions) ELSE 1

\* server.ts 143-148: the next version from the names in the history directory.
NextVersion(versions) == (IF versions # {} THEN Max(versions) ELSE 0) + 1

\* server.ts 151-154: req.body (parsed by express.json) is spread into a new
\* object and written with JSON.stringify(newContent, null, 2); the file then
\* holds the text whose parse is returned here.
ServerContent(body) ==
    LET parsed == Parse(body)
        newContent == Obj(parsed.kids)
    IN Parse(Stringify(newContent))

\* server.ts 110-119: GET /api/publisher/:filename.
GetPublisherResponse(file) ==
    IF file.st = "json"
        THEN [op |-> "load", seen |-> file.st, status |-> 200, error |-> "",
              doc |-> file.doc]
        ELSE [op |-> "load", seen |-> file.st, status |-> 404,
              error |-> "Publisher config not found", doc |-> Null]

\* server.ts 207-227: GET /api/publisher/:filename/versions/:version.
GetVersionResponse(h, n) ==
    IF n \notin DOMAIN h
        THEN [op |-> "loadVersion", seen |-> "missing", status |-> 404,
              error |-> "Version not found", doc |-> Null]
        ELSE [op |-> "loadVersion", seen |-> "json", status |-> 200, error |-> "",
              doc |-> h[n]]

\* An initialization that writes v1.json whether or not a history exists.
HistoryAfterInitAlways(file, dirExists, h) ==
    IF file.st = "json" THEN (1 :> file.doc) @@ h ELSE h

\* server.ts 45-85: initializeHistory, for the publisher file.
HistoryAfterInit(file, dirExists, h) ==
    IF ~dirExists /\ file.st = "json" THEN (1 :> file.doc) ELSE h
HistDirAfterInit(file, dirExists) ==
    dirExists \/ file.st = "json"

ServerInit ==
    /\ serverUp = FALSE
    /\ dataFile \in {NoFile, BadFile, JsonFile(DocA)}
    /\ histDir = FALSE
    /\ hist = <<>>
    /\ req = [r \in ReqIds |-> IdleReq]
    /\ lastResp = NoResp
    /\ maxReturned = 0
    /\ anyFailed = FALSE
    /\ origContent = NoFile

\* server.ts 230-232: await initializeHistory(), then app.listen.
StartServer ==
    /\ ~serverUp
    /\ serverUp' = TRUE
    /\ hist' = HistoryAfterInit(dataFile, histDir, hist)
    /\ histDir' = HistDirAfterInit(dataFile, histDir)
    /\ origContent' = IF ~histDir /\ dataFile.st = "json" THEN dataFile
                      ELSE origContent
    /\ UNCHANGED <<dataFile, req, lastResp, maxReturned, anyFailed>>

\* The process is stopped (between requests) and will be started again.
StopServer ==
    /\ serverUp
    /\ \A r \in ReqIds : req[r].pc = "idle"
    /\ serverUp' = FALSE
    /\ UNCHANGED <<dataFile, histDir, hist, req, lastResp, maxReturned, anyFailed, origContent>>

\* A GET handler reads the store in one step; its response is held in lastResp
\* until it is delivered (GetDone), before the store takes its next step.
GetPublisher ==
    /\ serverUp
    /\ lastResp = NoResp
    /\ lastResp' = GetPublisherResponse(dataFile)
    /\ UNCHANGED <<serverUp, dataFile, histDir, hist, req, maxReturned, anyFailed, origContent>>

GetVersion(n) ==
    /\ serverUp
    /\ lastResp = NoResp
    /\ lastResp' = GetVersionResponse(hist, n)
    /\ UNCHANGED <<serverUp, dataFile, histDir, hist, req, maxReturned, anyFailed, origContent>>

GetDone ==
    /\ lastResp # NoResp
    /\ lastResp' = NoResp
    /\ UNCHANGED <<serverUp, dataFile, histDir, hist, req, maxReturned,
                   anyFailed, origContent>>

Active(r) == req[r].pc \in {"readdir", "writeMain", "writeHist"}

\* server.ts 129-142: the handler runs to the await of fs.readdir (making the
\* history directory first when it is missing).
PutBegin(r, doc) ==
    /\ serverUp
    /\ req[r].pc = "idle"
    /\ \A n \in DOMAIN hist : n < MaxVersion
    /\ histDir' = TRUE
    /\ req' = [q \in ReqIds |->
                IF q = r
                    THEN [IdleReq EXCEPT !.pc = "readdir",
                                         !.body = Stringify(doc),
                                         !.alone = \A o \in ReqIds : ~Active(o),
                                         !.startMax = MaxStored(hist),
                                         !.prevRet = maxReturned]
                    ELSE IF Active(q) THEN [req[q] EXCEPT !.alone = FALSE]
                    ELSE req[q]]
    /\ UNCHANGED <<serverUp, dataFile, hist, lastResp, maxReturned, anyFailed, origContent>>

\* server.ts 142-154: readdir returns; the version is chosen and the write of
\* the main file is issued.
PutReaddir(r) ==
    /\ req[r].pc = "readdir"
    /\ req' = [req EXCEPT ![r].pc = "writeMain",
                          ![r].newVersion = NextVersion(DOMAIN hist)]
    /\ UNCHANGED <<serverUp, dataFile, histDir, hist, lastResp, maxReturned,
                   anyFailed, origContent>>

\* server.ts 154-161: the main file is written; the write of v<n>.json is issued.
PutWriteMain(r) ==
    /\ req[r].pc = "writeMain"
    /\ dataFile' = JsonFile(ServerContent(req[r].body))
    /\ req' = [req EXCEPT ![r].pc = "writeHist"]
    /\ UNCHANGED <<serverUp, histDir, hist, lastResp, maxReturned, anyFailed, origContent>>

\* server.ts 157-163: v<n>.json is written and the success response is sent.
PutWriteHist(r) ==
    /\ req[r].pc = "writeHist"
    /\ hist' = (req[r].newVersion :> ServerContent(req[r].body)) @@ hist
    /\ req' = [req EXCEPT ![r].pc = "done", ![r].status = 200,
                          ![r].first = (maxReturned = 0)]
    /\ maxReturned' = IF req[r].newVersion > maxReturned THEN req[r].newVersion
                      ELSE maxReturned
    /\ UNCHANGED <<serverUp, dataFile, histDir, lastResp, anyFailed, origContent>>

\* server.ts 164-166: a write throws (disk full, permissions) and the handler
\* answers 500; a failure of the second write leaves the main file written.
PutWriteFails(r) ==
    /\ req[r].pc \in {"writeMain", "writeHist"}
    /\ req' = [req EXCEPT ![r].pc = "done", ![r].status = 500]
    /\ anyFailed' = TRUE
    /\ UNCHANGED <<serverUp, dataFile, histDir, hist, lastResp, maxReturned,
                   origContent>>

\* The response has been delivered; the handler is gone.
PutDone(r) ==
    /\ req[r].pc = "done"
    /\ req' = [req EXCEPT ![r] = IdleReq]
    /\ UNCHANGED <<serverUp, dataFile, histDir, hist, lastResp, maxReturned,
                   anyFailed, origContent>>

(***************************************************************************)
(* Properties of the configuration store.                                  *)
(***************************************************************************)
Answered(r) == req[r].pc = "done" /\ req[r].status = 200

\* C1: a save that no other save overlapped answers with the version number
\* one greater than the highest stored when it began, which is greater than
\* every version number answered before it.
C1_SequentialSavesIncrement ==
    \A r \in ReqIds :
        (Answered(r) /\ req[r].alone) =>
            /\ req[r].newVersion = req[r].startMax + 1
            /\ req[r].newVersion > req[r].prevRet

\* A third save, overlapped by no other, answered version 3 after version 2
\* had been answered.
C1_Witness ==
    \E r \in ReqIds :
        /\ Answered(r) /\ req[r].alone
        /\ req[r].prevRet = 2 /\ req[r].newVersion = 3

\* C2: once v<n>.json is written, no step changes what it holds.
C2_VersionsImmutable ==
    [][\A n \in DOMAIN hist : n \in DOMAIN hist' /\ hist'[n] = hist[n]]_vars

\* C3: the step in which a save succeeds adds exactly one version to the
\* history, so m versions and k successful saves leave m + k versions.
C3_OneVersionPerSave ==
    [][\A r \in ReqIds :
          (req[r].pc # "done" /\ req'[r].pc = "done" /\ req'[r].status = 200)
              => Cardinality(DOMAIN hist') = Cardinality(DOMAIN hist) + 1]_vars

\* C4: with an initialized history, no save in progress and no save that failed, the
\* current content is the content of the highest version.
C4_CurrentIsLatest ==
    ( /\ origContent.st = "json"
      /\ \A r \in ReqIds : ~Active(r)
      /\ ~anyFailed )
        => dataFile = JsonFile(hist[MaxStored(hist)])

\* C5: when initialization stored the file's content as version 1, the first
\* save that succeeds answers version 2 and version 1 still loads as the
\* original content.
C5_InitialVersionKept ==
    origContent.st = "json" =>
        /\ GetVersionResponse(hist, 1).status = 200
        /\ GetVersionResponse(hist, 1).doc = origContent.doc
        /\ \A r \in ReqIds : (Answered(r) /\ req[r].first) => req[r].newVersion = 2

\* The first save stored a different document as version 2 and a later load
\* of version 1 returned the original content.
C5_Witness ==
    /\ origContent.st = "json"
    /\ \E r \in ReqIds :
          /\ Answered(r) /\ req[r].first
          /\ Parse(req[r].body) # origContent.doc
          /\ dataFile.doc # origContent.doc
    /\ lastResp = GetVersionResponse(hist, 1)
    /\ lastResp.doc = origContent.doc

\* C6: a load of an unknown file answers NotFound, a load of a file that does
\* not parse answers an error distinct from it.
C6_DistinctLoadErrors ==
    LET notFound == GetPublisherResponse(NoFile)
    IN lastResp.op = "load" =>
          /\ (lastResp.seen = "missing" => lastResp.status = 404)
          /\ (lastResp.seen = "invalid" =>
                /\ lastResp.status # 200
                /\ <<lastResp.status, lastResp.error>>
                       # <<notFound.status, notFound.error>>)

EditorIdle ==
    /\ phase = "loading"
    /\ publisherConfig = Null
    /\ initialConfig = Null
    /\ itemTemplate = <<>>
    /\ rowIndex = <<>>
    /\ templateShared = <<>>
    /\ jsonDisplay = <<>>
    /\ dialogs = 0
    /\ inflight = <<>>
    /\ notice = ""
    /\ nOps = 0
    /\ loaderMounted = FALSE
    /\ cmpOpen = FALSE
    /\ baseConfig = Null
    /\ selected = "current"
    /\ availableVersions = <<>>
    /\ fetches = <<>>
    /\ diffView = <<>>
    /\ lineNums = <<1, 1>>
    /\ fetchFailed = FALSE

Init == ServerInit /\ EditorIdle

(***************************************************************************)
(* The editor: PublisherConfiguration and the components it mounts.        *)
(***************************************************************************)
RECURSIVE SetAt(_, _, _)
GetAt(v, path) ==
    IF Len(path) = 1 THEN v.kids[path[1]].v
    ELSE IF Len(path) = 2 THEN v.kids[path[1]].v.kids[path[2]].v
    ELSE v.kids[path[1]].v.kids[path[2]].v.kids[path[3]].v
SetAt(v, path, nv) ==
    IF path = <<>> THEN nv
    ELSE [v EXCEPT !.kids[Head(path)].v = SetAt(@, Tail(path), nv)]

\* JSON.stringify(value, null, 2): the text as lines, each with its depth of
\* indentation (two spaces a level) and its tokens.
Line(ind, toks) == [ind |-> ind, toks |-> toks]
RECURSIVE JsonLinesAt(_, _, _, _)
RECURSIVE JsonLinesKids(_, _, _, _)
JsonLinesKids(v, ind, i, acc) ==
    IF i > Len(v.kids) THEN acc
    ELSE LET key == IF v.t = "object"
                        THEN <<Tok("str", v.kids[i].k), Tok(":", "")>>
                        ELSE <<>>
         IN JsonLinesKids(v, ind, i + 1,
                acc \o JsonLinesAt(v.kids[i].v, ind, key, i = Len(v.kids)))
JsonLinesAt(v, ind, key, last) ==
    LET comma == IF last THEN <<>> ELSE <<Tok(",", "")>>
        open == IF v.t = "array" THEN Tok("[", "") ELSE Tok("{", "")
        close == IF v.t = "array" THEN Tok("]", "") ELSE Tok("}", "")
    IN IF v.t \notin {"array", "object"}
           THEN <<Line(ind, key \o Stringify(v) \o comma)>>
       ELSE IF v.kids = <<>>
           THEN <<Line(ind, key \o <<open, close>> \o comma)>>
       ELSE <<Line(ind, key \o <<open>>)>>
                \o JsonLinesKids(v, ind + 1, 1, <<>>)
                \o <<Line(ind, <<close>> \o comma)>>
JsonLines(v) == JsonLinesAt(v, 0, <<>>, TRUE)

\* The text an input event delivers from a text or number input, and what the
\* user can type into the name inputs of the two AddField components.
Typed == {"7", "x"}
NumericTexts == {"0", "1", "7"}
KeyInputs == {"tag", "opts", "aliasName", "  "}
PropInputs == {"level", "depth", "  "}
FieldTypes == {"string", "number", "boolean", "array", "object"}

\* String.prototype.trim on the name inputs above.
Trim(x) == IF x = "  " THEN "" ELSE x

\* Number(val) on the text of an input.
ToNumber(text) ==
    IF text = "" THEN "0" ELSE IF text \in NumericTexts THEN text ELSE "NaN"

\* typeof value, and Array.isArray(value).
TypeOf(v) == IF v.t \in {"object", "array", "null"} THEN "object" ELSE v.t
IsArray(v) == v.t = "array"

\* typeof value === "object" && value !== null
IsObjectLike(v) == TypeOf(v) = "object" /\ v # Null

\* A classifier that tests for an object before it tests for an array.
GetFieldTypeObjectFirst(v) ==
    IF TypeOf(v) = "boolean" THEN "boolean"
    ELSE IF TypeOf(v) = "object" /\ v # Null THEN "object"
    ELSE IF IsArray(v) THEN "array"
    ELSE "primitive"

\* form-field.ts 104-111: FormField.getFieldType.
GetFieldType(v) ==
    IF TypeOf(v) = "boolean" THEN "boolean"
    ELSE IF IsArray(v) THEN "array"
    ELSE IF TypeOf(v) = "object" /\ v # Null THEN "object"
    ELSE "primitive"

\* Object.keys(value) as member names, for an object or an array.
MemberName(v, i) == IF v.t = "array" THEN ToString(i - 1) ELSE v.kids[i].k

\* array-field.ts 415-428: ArrayField.createTemplate.
CreateTemplate(item) ==
    IF IsObjectLike(item)
        THEN Obj([i \in 1..Len(item.kids) |-> KV(MemberName(item, i), Str(""))])
        ELSE Str("")

\* array-field.ts 243-259: the ArrayField constructor's template, for the
\* field at each position of the document (Null where no ArrayField is
\* mounted or the array is empty).
TemplatesOf(doc) ==
    [i \in 1..Len(doc.kids) |->
        IF doc.kids[i].v.t = "array" /\ doc.kids[i].v.kids # <<>>
            THEN CreateTemplate(doc.kids[i].v.kids[1].v)
            ELSE Null]

\* An "Add Item" that ignores the template.
NewItemBlank(tpl, arr) == Str("")

\* array-field.ts 393-405: the item ArrayField.handleAddItem appends.
NewItem(tpl, arr) ==
    IF tpl # Null THEN (IF IsObjectLike(tpl) THEN Clone(tpl) ELSE tpl)
    ELSE IF arr.kids # <<>> THEN CreateTemplate(arr.kids[Len(arr.kids)].v)
    ELSE Str("")
TemplateAfterAdd(tpl, arr) ==
    IF tpl = Null /\ arr.kids # <<>> THEN NewItem(tpl, arr) ELSE tpl

\* An "Add Item" that pushes the template object itself, without a copy.
PushedItemIsTemplateAlways(tpl, arr) == IsObjectLike(NewItem(tpl, arr))

\* array-field.ts 396-405: the item pushed is a copy of the template
\* (JSON.parse(JSON.stringify(...))) when there is one; when there is none,
\* the object createTemplate returns is both pushed and kept as the template.
PushedItemIsTemplate(tpl, arr) ==
    tpl = Null /\ arr.kids # <<>> /\ IsObjectLike(NewItem(tpl, arr))

\* The positions of the items that are one object with the template, after
\* splice(index, 1).
SharedAfterSplice(shared, index) ==
    {k \in shared : k < index} \cup {k - 1 : k \in {x \in shared : x > index}}

\* object-field.ts 217-236: the value PrimitiveField writes back for the text
\* typed (or, for a checkbox, for the click).
PrimitiveWrite(cur, typed) ==
    IF cur.t = "boolean" THEN Bool(cur.s # "true")
    ELSE IF cur.t = "number" THEN Num(ToNumber(typed))
    ELSE Str(typed)

\* An AddField whose every type starts as the empty string.
DefaultValueString(type) == Str("")

\* add-field.ts 186-204: the initial value for the chosen type.
DefaultValue(type) ==
    CASE type = "number" -> Num("0")
      [] type = "boolean" -> Bool(FALSE)
      [] type = "array" -> Arr(<<>>)
      [] type = "object" -> Obj(<<>>)
      [] OTHER -> Str("")

\* A top-level list of removable fields that leaves no key out.
RemovableKeysAll(doc) == Keys(doc)

\* object-field.ts 446-448 and 530-541: the keys rendered with a remove
\* button (FormField gets onRemove only in the optional section).
RemovableKeys(doc) == {k \in Keys(doc) : ~IsRequired(k)}

\* object-field.ts 490-499: required fields are mounted with
\* isFixedStructure = true, optional ones with the default, false.
IsFixedStructure(k) == IsRequired(k)

\* An ArrayField that hands its parent's flag down to its object items.
ItemIsFixedStructureInherited(parentFixed) == parentFixed

\* array-field.ts 347-356: renderNestedItem mounts the ObjectField of an object
\* item with isFixedStructure = true.
ItemIsFixedStructure(parentFixed) == TRUE

\* array-field.ts 298-306, 323: renderArrayItems binds to the delete button of
\* each row the index the item has at that moment (positions count from 1).
BoundIndices(n) == [j \in 1..n |-> j]

\* Array.prototype.splice(index, 1).
Splice(seq, index) == IF index \in 1..Len(seq) THEN RemoveAt(seq, index) ELSE seq

\* A delete handler that drops the clicked row and leaves the other rows with
\* the indices they were created with.
RowsAfterRemoveStale(rows, r, n) == RemoveAt(rows, r)

\* array-field.ts 382-386: the delete handler re-renders the rows.
RowsAfterRemove(rows, r, n) == BoundIndices(n)

\* The indices bound to the rows of the ArrayField at each position of the
\* document (no rows where no ArrayField is mounted).
RowsOf(doc) ==
    [i \in 1..Len(doc.kids) |->
        IF IsArray(doc.kids[i].v) THEN BoundIndices(Len(doc.kids[i].v.kids))
                                  ELSE <<>>]

\* A change test that compares the two objects by identity.
HasChangesByIdentity(doc, baseline) == TRUE

\* object-field.ts 588-591: saveChanges' change test.
HasChanges(doc, baseline) == Stringify(doc) # Stringify(baseline)

\* A handler that resynchronizes the baseline whatever the outcome.
BaselineAfterSaveAlways(ok, doc, baseline) == Clone(doc)

\* object-field.ts 603-610: the baseline after the response of a PUT.
BaselineAfterSave(ok, doc, baseline) == IF ok THEN Clone(doc) ELSE baseline

\* api-client.ts 10 with loader.ts 54-56: request() mounts the overlay.
LoaderAfterRequest == TRUE

\* api-client.ts 14-16 with loader.ts 63-66: the finally block of request()
\* removes the overlay, however many other requests are in flight.
LoaderAfterResponse(others) == FALSE

\* The state of the store an editing session starts from: the server is up
\* and has initialized the history of the file.
EditorInit ==
    /\ serverUp = TRUE
    /\ dataFile \in {NoFile, BadFile, JsonFile(DocA)}
    /\ histDir = HistDirAfterInit(dataFile, FALSE)
    /\ hist = HistoryAfterInit(dataFile, FALSE, <<>>)
    /\ req = [r \in ReqIds |-> IdleReq]
    /\ lastResp = NoResp
    /\ maxReturned = 0
    /\ anyFailed = FALSE
    /\ origContent = IF dataFile.st = "json" THEN dataFile ELSE NoFile
    /\ EditorIdle

\* object-field.ts 355-374: render() rebuilds the form (new ArrayFields, so
\* new templates) and refreshes the preview, when there is a document.
Rendered(doc) ==
    /\ itemTemplate' = IF doc = Null THEN <<>> ELSE TemplatesOf(doc)
    /\ rowIndex' = IF doc = Null THEN <<>> ELSE RowsOf(doc)
    /\ templateShared' = IF doc = Null THEN <<>>
                                       ELSE [i \in 1..Len(doc.kids) |-> {}]
    /\ jsonDisplay' = IF doc = Null THEN <<>> ELSE JsonLines(doc)

\* An onChange callback that leaves the preview as it is.
UpdateJsonDisplayStale(doc, shown) == shown

\* object-field.ts 463-468: updateJsonDisplay, the onChange callback handed to
\* every FormField (object-field.ts 496, 535).
UpdateJsonDisplay(doc, shown) == JsonLines(doc)

\* A loadData that falls back to an empty document when the fetch fails.
DocumentAfterLoadFallback(ok, json, doc) == IF ok THEN json ELSE Obj(<<>>)

\* object-field.ts 422-431: this.publisherConfig after loadData.
DocumentAfterLoad(ok, json, doc) == IF ok THEN json ELSE doc

\* A baseline that is the document object itself: a change of the document
\* is a change of the baseline.
BaselineAfterChangeAliased(baseline, doc) == doc

\* object-field.ts 427 and 605: the baseline is JSON.parse(JSON.stringify(..))
\* of the document, an object of its own, which the in-place changes of the
\* document do not reach.
BaselineAfterChange(baseline, doc) == baseline

\* object-field.ts 345-350 and 421-432: init() awaits loadData and renders.
\* networkOk = FALSE is a fetch that rejects.
LoadData(networkOk) ==
    /\ phase = "loading"
    /\ LET resp == GetPublisherResponse(dataFile)
           ok == networkOk /\ resp.status = 200
           json == Parse(Stringify(resp.doc))
       IN /\ publisherConfig' = DocumentAfterLoad(ok, json, publisherConfig)
          /\ initialConfig' = IF ok THEN Clone(json) ELSE initialConfig
          /\ notice' = IF ok THEN "" ELSE "Failed to fetch publishers"
          /\ Rendered(publisherConfig')
    /\ phase' = "ready"
    /\ UNCHANGED <<dialogs, inflight, nOps>>
    /\ UNCHANGED serverVars
    /\ loaderMounted' = LoaderAfterResponse(0)
    /\ UNCHANGED cmpVars

CanEdit == phase = "ready" /\ publisherConfig # Null /\ nOps < MaxOps

\* The paths of the values a PrimitiveField is mounted on: a top-level boolean
\* or primitive (form-field.ts 117-123, 166-171), a row of a top-level object
\* (object-field.ts 117-131), a primitive item of a top-level array
\* (array-field.ts 361-370) and a row of one of its object items
\* (array-field.ts 347-356).
HasPrimitiveField(doc, path) ==
    LET top == doc.kids[path[1]].v
    IN CASE Len(path) = 1 -> GetFieldType(top) \in {"boolean", "primitive"}
         [] Len(path) = 2 ->
               \/ GetFieldType(top) = "object"
               \/ GetFieldType(top) = "array" /\ ~IsObjectLike(top.kids[path[2]].v)
         [] Len(path) = 3 ->
               GetFieldType(top) = "array" /\ IsObjectLike(top.kids[path[2]].v)

\* The input (or change) event of a PrimitiveField: the value is written back
\* into its container and the preview refreshed.  A write into an object item
\* that is one object with the template of its ArrayField is a write into the
\* template, and into every other item that is that object.
EditPrimitive(path, typed) ==
    /\ CanEdit
    /\ HasPrimitiveField(publisherConfig, path)
    /\ LET cur == GetAt(publisherConfig, path)
           nv == PrimitiveWrite(cur, typed)
           i == path[1]
           aliased == Len(path) = 3 /\ path[2] \in templateShared[i]
       IN /\ nv # cur
          /\ publisherConfig' =
                IF aliased
                    THEN [publisherConfig EXCEPT !.kids[i].v.kids =
                            [k \in 1..Len(@) |->
                                IF k \in templateShared[i]
                                    THEN [@[k] EXCEPT !.v.kids[path[3]].v = nv]
                                    ELSE @[k]]]
                    ELSE SetAt(publisherConfig, path, nv)
          /\ itemTemplate' =
                IF aliased
                    THEN [itemTemplate EXCEPT ![i].kids[path[3]].v = nv]
                    ELSE itemTemplate
    /\ jsonDisplay' = UpdateJsonDisplay(publisherConfig', jsonDisplay)
    /\ nOps' = nOps + 1
    /\ notice' = ""
    /\ UNCHANGED <<phase, rowIndex, templateShared, dialogs, inflight>>
    /\ UNCHANGED serverVars
    /\ UNCHANGED loaderMounted
    /\ UNCHANGED cmpVars
    /\ initialConfig' = BaselineAfterChange(initialConfig, publisherConfig')

\* array-field.ts 393-410: ArrayField.handleAddItem on the top-level array at i.
AddItem(i) ==
    /\ CanEdit
    /\ GetFieldType(publisherConfig.kids[i].v) = "array"
    /\ LET arr == publisherConfig.kids[i].v
           item == NewItem(itemTemplate[i], arr)
       IN /\ publisherConfig' =
                SetAt(publisherConfig, <<i>>,
                      [arr EXCEPT !.kids = Append(@, KV("", item))])
          /\ itemTemplate' =
                [itemTemplate EXCEPT ![i] = TemplateAfterAdd(itemTemplate[i], arr)]
          /\ rowIndex' = [rowIndex EXCEPT ![i] = BoundIndices(Len(arr.kids) + 1)]
          /\ templateShared' =
                [templateShared EXCEPT ![i] =
                    IF PushedItemIsTemplate(itemTemplate[i], arr)
                        THEN @ \cup {Len(arr.kids) + 1} ELSE @]
    /\ jsonDisplay' = UpdateJsonDisplay(publisherConfig', jsonDisplay)
    /\ nOps' = nOps + 1
    /\ notice' = ""
    /\ UNCHANGED <<phase, dialogs, inflight>>
    /\ UNCHANGED serverVars
    /\ UNCHANGED loaderMounted
    /\ UNCHANGED cmpVars
    /\ initialConfig' = BaselineAfterChange(initialConfig, publisherConfig')

\* array-field.ts 375-388: the delete button of row r of the array at i
\* splices at the index it was created with, and the rows are rendered again.
RemoveItem(i, r) ==
    /\ CanEdit
    /\ GetFieldType(publisherConfig.kids[i].v) = "array"
    /\ r \in 1..Len(rowIndex[i])
    /\ publisherConfig' =
          [publisherConfig EXCEPT !.kids[i].v.kids = Splice(@, rowIndex[i][r])]
    /\ rowIndex' =
          [rowIndex EXCEPT ![i] =
              RowsAfterRemove(@, r, Len(publisherConfig'.kids[i].v.kids))]
    /\ templateShared' =
          [templateShared EXCEPT ![i] = SharedAfterSplice(@, rowIndex[i][r])]
    /\ jsonDisplay' = UpdateJsonDisplay(publisherConfig', jsonDisplay)
    /\ nOps' = nOps + 1
    /\ notice' = ""
    /\ UNCHANGED <<phase, itemTemplate, dialogs, inflight>>
    /\ UNCHANGED serverVars
    /\ UNCHANGED loaderMounted
    /\ UNCHANGED cmpVars
    /\ initialConfig' = BaselineAfterChange(initialConfig, publisherConfig')

\* The ObjectFields of the field at position i: the one FormField mounts on a
\* top-level object (j = 0, form-field.ts 150-158) and the one ArrayField
\* mounts on item j of a top-level array (array-field.ts 347-356).
HasObjectField(doc, i, j) ==
    IF j = 0 THEN GetFieldType(doc.kids[i].v) = "object"
    ELSE /\ GetFieldType(doc.kids[i].v) = "array"
         /\ j \in 1..Len(doc.kids[i].v.kids)
         /\ IsObjectLike(doc.kids[i].v.kids[j].v)
ObjectPath(i, j) == IF j = 0 THEN <<i>> ELSE <<i, j>>
ObjectFieldIsFixed(doc, i, j) ==
    IF j = 0 THEN IsFixedStructure(doc.kids[i].k)
             ELSE ItemIsFixedStructure(IsFixedStructure(doc.kids[i].k))

\* object-field.ts 97-100 with add-field.ts 177-184: the key ObjectField's
\* AddField accepts.
PropertyAccepted(obj, key) == key # "" /\ ~HasKey(obj, key)

\* object-field.ts 49-60, 94-111 with add-field.ts 176-210: "+ Add" of the
\* AddField of an ObjectField (type fixed to string); there is no AddField
\* when the structure is fixed.
AddProperty(i, j, input) ==
    /\ CanEdit
    /\ HasObjectField(publisherConfig, i, j)
    /\ ~ObjectFieldIsFixed(publisherConfig, i, j)
    /\ LET key == Trim(input)
           obj == GetAt(publisherConfig, ObjectPath(i, j))
           added == PropertyAccepted(obj, key)
       IN /\ publisherConfig' =
                IF added
                    THEN SetAt(publisherConfig, ObjectPath(i, j),
                               [obj EXCEPT !.kids =
                                   Append(@, KV(key, DefaultValue("string")))])
                    ELSE publisherConfig
          /\ notice' = IF key = "" THEN "Field name cannot be empty" ELSE ""
          /\ nOps' = IF added THEN nOps + 1 ELSE nOps
          /\ jsonDisplay' = IF added THEN UpdateJsonDisplay(publisherConfig', jsonDisplay)
                                  ELSE jsonDisplay
    /\ UNCHANGED <<phase, itemTemplate, rowIndex, templateShared, dialogs, inflight>>
    /\ UNCHANGED serverVars
    /\ UNCHANGED loaderMounted
    /\ UNCHANGED cmpVars
    /\ initialConfig' = BaselineAfterChange(initialConfig, publisherConfig')

\* object-field.ts 137-150, 156-169: "Remove Field" of row l of an ObjectField;
\* there is no such button when the structure is fixed.
RemoveProperty(i, j, l) ==
    /\ CanEdit
    /\ HasObjectField(publisherConfig, i, j)
    /\ ~ObjectFieldIsFixed(publisherConfig, i, j)
    /\ LET obj == GetAt(publisherConfig, ObjectPath(i, j))
       IN /\ l \in 1..Len(obj.kids)
          /\ publisherConfig' =
                SetAt(publisherConfig, ObjectPath(i, j),
                      [obj EXCEPT !.kids = RemoveAt(@, l)])
    /\ jsonDisplay' = UpdateJsonDisplay(publisherConfig', jsonDisplay)
    /\ nOps' = nOps + 1
    /\ notice' = ""
    /\ UNCHANGED <<phase, itemTemplate, rowIndex, templateShared, dialogs, inflight>>
    /\ UNCHANGED serverVars
    /\ UNCHANGED loaderMounted
    /\ UNCHANGED cmpVars
    /\ initialConfig' = BaselineAfterChange(initialConfig, publisherConfig')

\* A top-level add that does not look at the list of required fields.
FieldAcceptedUnlessPresent(doc, key) == key # "" /\ ~HasKey(doc, key)

\* object-field.ts 558-569 with add-field.ts 177-184: the key the AddField of
\* the optional section accepts.
FieldAccepted(doc, key) == key # "" /\ ~HasKey(doc, key) /\ ~IsRequired(key)

\* object-field.ts 553-575 with add-field.ts 176-210: "+ Add" of the AddField of
\* the optional section.
AddField(input, type) ==
    /\ CanEdit
    /\ LET key == Trim(input)
           added == FieldAccepted(publisherConfig, key)
       IN /\ publisherConfig' =
                IF added
                    THEN [publisherConfig EXCEPT
                            !.kids = Append(@, KV(key, DefaultValue(type)))]
                    ELSE publisherConfig
          /\ notice' = IF key = "" THEN "Field name cannot be empty"
                       ELSE IF HasKey(publisherConfig, key) THEN "Field already exists"
                       ELSE IF IsRequired(key)
                           THEN "Cannot add a required field manually"
                       ELSE ""
          /\ nOps' = IF added THEN nOps + 1 ELSE nOps
          /\ IF added THEN Rendered(publisherConfig')
                      ELSE UNCHANGED <<itemTemplate, rowIndex, templateShared, jsonDisplay>>
    /\ UNCHANGED <<phase, dialogs, inflight>>
    /\ UNCHANGED serverVars
    /\ UNCHANGED loaderMounted
    /\ UNCHANGED cmpVars
    /\ initialConfig' = BaselineAfterChange(initialConfig, publisherConfig')

\* object-field.ts 530-541: "Remove Field" of a field of the optional section.
RemoveField(key) ==
    /\ CanEdit
    /\ key \in RemovableKeys(publisherConfig)
    /\ publisherConfig' =
          [publisherConfig EXCEPT !.kids = RemoveAt(@, IndexOfKey(publisherConfig, key))]
    /\ Rendered(publisherConfig')
    /\ nOps' = nOps + 1
    /\ notice' = ""
    /\ UNCHANGED <<phase, dialogs, inflight>>
    /\ UNCHANGED serverVars
    /\ UNCHANGED loaderMounted
    /\ UNCHANGED cmpVars
    /\ initialConfig' = BaselineAfterChange(initialConfig, publisherConfig')

\* object-field.ts 587-594: "Save Changes" on a document equal to the baseline.
SaveNoChanges ==
    /\ phase = "ready"
    /\ ~HasChanges(publisherConfig, initialConfig)
    /\ notice' = "No changes were made"
    /\ UNCHANGED <<phase, publisherConfig, initialConfig, itemTemplate, rowIndex, templateShared, jsonDisplay,
                   dialogs, inflight, nOps>>
    /\ UNCHANGED serverVars
    /\ UNCHANGED loaderMounted
    /\ UNCHANGED cmpVars

\* object-field.ts 587-614: "Save Changes" on a changed document opens the
\* AreYouSure dialog.
SaveAsk ==
    /\ phase = "ready"
    /\ HasChanges(publisherConfig, initialConfig)
    /\ dialogs < MaxPending
    /\ dialogs' = dialogs + 1
    /\ notice' = ""
    /\ UNCHANGED <<phase, publisherConfig, initialConfig, itemTemplate, rowIndex, templateShared, jsonDisplay,
                   inflight, nOps>>
    /\ UNCHANGED serverVars
    /\ UNCHANGED loaderMounted
    /\ UNCHANGED cmpVars

\* api-client.ts 124-127 and object-field.ts 596-601: Confirm runs handleSave
\* up to its await (api.put serializes the document and sends it) and closes
\* the dialog.
Confirm ==
    /\ dialogs > 0
    /\ Len(inflight) < MaxPending
    /\ inflight' = Append(inflight, Stringify(publisherConfig))
    /\ dialogs' = dialogs - 1
    /\ notice' = ""
    /\ UNCHANGED <<phase, publisherConfig, initialConfig, itemTemplate, rowIndex, templateShared, jsonDisplay,
                   nOps>>
    /\ UNCHANGED serverVars
    /\ loaderMounted' = LoaderAfterRequest
    /\ UNCHANGED cmpVars

\* api-client.ts 120-122: Cancel (or a click outside) closes the dialog.
Cancel ==
    /\ dialogs > 0
    /\ dialogs' = dialogs - 1
    /\ notice' = ""
    /\ UNCHANGED <<phase, publisherConfig, initialConfig, itemTemplate, rowIndex, templateShared, jsonDisplay,
                   inflight, nOps>>
    /\ UNCHANGED serverVars
    /\ UNCHANGED loaderMounted
    /\ UNCHANGED cmpVars

\* object-field.ts 603-606: the store has served request n (server.ts 129-163)
\* and its success response arrives.
PutSucceeds(n) ==
    /\ n \in 1..Len(inflight)
    /\ dataFile' = JsonFile(ServerContent(inflight[n]))
    /\ initialConfig' = BaselineAfterSave(TRUE, publisherConfig, initialConfig)
    /\ notice' = "Configuration saved successfully!"
    /\ inflight' = RemoveAt(inflight, n)
    /\ UNCHANGED <<phase, publisherConfig, itemTemplate, rowIndex, templateShared, jsonDisplay, dialogs, nOps>>
    /\ UNCHANGED <<serverUp, histDir, hist, req, lastResp, maxReturned, anyFailed,
                   origContent>>
    /\ loaderMounted' = LoaderAfterResponse(Len(inflight) - 1)
    /\ UNCHANGED cmpVars

\* object-field.ts 603, 607-610: request n is answered with an error status, or
\* fetch rejects.  wrote: the store had written the main file before it failed
\* (server.ts 154-166).
PutFails(n, wrote) ==
    /\ n \in 1..Len(inflight)
    /\ dataFile' = IF wrote THEN JsonFile(ServerContent(inflight[n])) ELSE dataFile
    /\ initialConfig' = BaselineAfterSave(FALSE, publisherConfig, initialConfig)
    /\ notice' = "Failed to save configuration."
    /\ inflight' = RemoveAt(inflight, n)
    /\ UNCHANGED <<phase, publisherConfig, itemTemplate, rowIndex, templateShared, jsonDisplay, dialogs, nOps>>
    /\ UNCHANGED <<serverUp, histDir, hist, req, lastResp, maxReturned, anyFailed,
                   origContent>>
    /\ loaderMounted' = LoaderAfterResponse(Len(inflight) - 1)
    /\ UNCHANGED cmpVars

\* The user's edits of the form.
EditNext ==
    \/ \E i \in 1..Len(publisherConfig.kids), typed \in Typed :
          \/ EditPrimitive(<<i>>, typed)
          \/ \E j \in 1..Len(publisherConfig.kids[i].v.kids) :
                \/ EditPrimitive(<<i, j>>, typed)
                \/ \E l \in 1..Len(publisherConfig.kids[i].v.kids[j].v.kids) :
                      EditPrimitive(<<i, j, l>>, typed)
    \/ \E i \in 1..Len(publisherConfig.kids) : AddItem(i)
    \/ \E i \in 1..Len(rowIndex) :
          \E r \in 1..Len(rowIndex[i]) : RemoveItem(i, r)
    \/ \E i \in 1..Len(publisherConfig.kids), input \in PropInputs :
          \E j \in 0..Len(publisherConfig.kids[i].v.kids) :
              AddProperty(i, j, input)
    \/ \E i \in 1..Len(publisherConfig.kids) :
          \E j \in 0..Len(publisherConfig.kids[i].v.kids) :
              \E l \in 1..Len(GetAt(publisherConfig, ObjectPath(i, j)).kids) :
                  RemoveProperty(i, j, l)
    \/ \E input \in KeyInputs, type \in FieldTypes : AddField(input, type)
    \/ \E key \in Keys(publisherConfig) : RemoveField(key)

EditorNext ==
    \/ \E networkOk \in BOOLEAN : LoadData(networkOk)
    \/ EditNext
    \/ SaveNoChanges
    \/ SaveAsk
    \/ Confirm
    \/ Cancel
    \/ \E n \in 1..Len(inflight) : PutSucceeds(n)
    \/ \E n \in 1..Len(inflight), wrote \in BOOLEAN : PutFails(n, wrote)

EditorSpec == EditorInit /\ [][EditorNext]_vars

(***************************************************************************)
(* The form on its own: the documents the components are mounted on and    *)
(* the user's edits, with no save in between.                               *)
(***************************************************************************)
FieldInit ==
    /\ serverUp = TRUE
    /\ dataFile \in {JsonFile(doc) : doc \in FieldDocs}
    /\ histDir = HistDirAfterInit(dataFile, FALSE)
    /\ hist = HistoryAfterInit(dataFile, FALSE, <<>>)
    /\ req = [r \in ReqIds |-> IdleReq]
    /\ lastResp = NoResp
    /\ maxReturned = 0
    /\ anyFailed = FALSE
    /\ origContent = dataFile
    /\ EditorIdle

FieldNext ==
    \/ \E networkOk \in BOOLEAN : LoadData(networkOk)
    \/ EditNext

FieldSpec == FieldInit /\ [][FieldNext]_vars

(***************************************************************************)
(* The compare view: CompareConfiguration of src/unnamed/part_007, opened  *)
(* by PublisherConfiguration.openCompareModal.  One view is modelled at a  *)
(* time.  Specification: CompareSpec.                                      *)
(***************************************************************************)
\* The document of the file after one save: publisherId was edited.
DocA2 == SetAt(DocA, <<1>>, Str("x"))

\* diffLines(oldText, newText) of the "diff" package (part_007 175, 364): a
\* shortest edit script over the lines of the two texts, as a sequence of
\* rows [added, removed, line]; the package's choice among scripts of equal
\* length is not modelled.
\* ScriptLengths(a, b)[i][j] is the length of a shortest script from the
\* lines i.. of a to the lines j.. of b.
RECURSIVE LengthsRow(_, _, _, _, _, _)
LengthsRow(a, b, i, below, j, acc) ==
    IF j = 0 THEN acc
    ELSE LET cell == IF a[i] = b[j] THEN below[j + 1]
                     ELSE IF below[j] <= acc[1] THEN below[j] + 1
                     ELSE acc[1] + 1
             row == <<cell>> \o acc
         IN IF j = 1 THEN row ELSE LengthsRow(a, b, i, below, j - 1, row)
RECURSIVE LengthsRows(_, _, _, _)
LengthsRows(a, b, i, rows) ==
    IF i = 0 THEN rows
    ELSE LET row == LengthsRow(a, b, i, rows[1], Len(b), <<Len(a) - i + 1>>)
         IN IF Len(row) = Len(b) + 1
                THEN LengthsRows(a, b, i - 1, <<row>> \o rows)
                ELSE rows
ScriptLengths(a, b) ==
    LengthsRows(a, b, Len(a), <<[j \in 1..(Len(b) + 1) |-> Len(b) + 1 - j]>>)
RECURSIVE ScriptFrom(_, _, _, _, _, _)
ScriptFrom(a, b, lengths, i, j, acc) ==
    IF i > Len(a) /\ j > Len(b) THEN acc
    ELSE IF i <= Len(a) /\ j <= Len(b) /\ a[i] = b[j]
        THEN ScriptFrom(a, b, lengths, i + 1, j + 1,
                Append(acc, [added |-> FALSE, removed |-> FALSE, line |-> a[i]]))
    ELSE IF j > Len(b) \/ (i <= Len(a) /\ lengths[i + 1][j] <= lengths[i][j + 1])
        THEN ScriptFrom(a, b, lengths, i + 1, j,
                Append(acc, [added |-> FALSE, removed |-> TRUE, line |-> a[i]]))
    ELSE ScriptFrom(a, b, lengths, i, j + 1,
                Append(acc, [added |-> TRUE, removed |-> FALSE, line |-> b[j]]))
EditScript(a, b) == ScriptFrom(a, b, ScriptLengths(a, b), 1, 1, <<>>)

\* The Change objects: the rows of the script grouped into parts of one kind,
\* part.value being the lines of the part.
RECURSIVE PartsOf(_, _)
PartsOf(rows, acc) ==
    IF rows = <<>> THEN acc
    ELSE LET r == Head(rows)
             n == Len(acc)
         IN IF n > 0 /\ acc[n].added = r.added /\ acc[n].removed = r.removed
                THEN PartsOf(Tail(rows),
                             [acc EXCEPT ![n].value = Append(@, r.line)])
                ELSE PartsOf(Tail(rows),
                             Append(acc, [added |-> r.added, removed |-> r.removed,
                                          value |-> <<r.line>>]))
DiffLines(oldText, newText) == PartsOf(EditScript(oldText, newText), <<>>)

\* part_007 382: part.value.replace(/\n$/, "").split("\n"); an empty value
\* splits into one empty line.
SplitLines(value) == IF value = <<>> THEN <<Line(0, <<>>)>> ELSE value

\* part_007 383-388 with enums.ts 41-43.
DiffTypeOf(part) ==
    IF part.added THEN "added" ELSE IF part.removed THEN "removed" ELSE "unchanged"
ContentPrefix(part) ==
    IF part.added THEN "+ " ELSE IF part.removed THEN "- " ELSE "  "

\* A new-line counter that advances on added lines only.
NewLineNumAfterAddedOnly(part, n) == IF part.added THEN n + 1 ELSE n

\* part_007 393-399: the counters after one line of a part.
OldLineNumAfter(part, n) == IF part.added THEN n ELSE n + 1
NewLineNumAfter(part, n) ==
    IF part.added THEN n + 1 ELSE IF part.removed THEN n ELSE n + 1

\* part_007 391-399: lineNumDisplay of one line.
LineNumDisplay(part, oldLineNum, newLineNum) ==
    IF part.added THEN ToString(newLineNum)
    ELSE IF part.removed THEN ToString(oldLineNum)
    ELSE ToString(oldLineNum) \o "  " \o ToString(newLineNum)

\* part_007 401-404: & < > are replaced in the text of the line.
EscapeText(text) ==
    CASE text = "&" -> "&amp;"
      [] text = "<" -> "&lt;"
      [] text = ">" -> "&gt;"
      [] OTHER -> text
EscapedContent(line) ==
    [line EXCEPT !.toks = [k \in 1..Len(@) |-> Tok(@[k].k, EscapeText(@[k].s))]]

\* part_007 406-411: the .diff-line element of one line: its class, the text
\* of its .diff-line__number and of its .diff-line__content.
DiffLineHtml(part, line, lineNumDisplay) ==
    [class |-> DiffTypeOf(part),
     number |-> ContentPrefix(part),
     content |-> EscapedContent(line)]

\* part_007 373-416: createDiffHtml, with the counters it ends with.
RECURSIVE DiffHtmlLines(_, _, _, _)
DiffHtmlLines(part, lines, k, acc) ==
    IF k > Len(lines) THEN acc
    ELSE DiffHtmlLines(part, lines, k + 1,
            [html |-> Append(acc.html,
                             DiffLineHtml(part, lines[k],
                                 LineNumDisplay(part, acc.oldLineNum, acc.newLineNum))),
             oldLineNum |-> OldLineNumAfter(part, acc.oldLineNum),
             newLineNum |-> NewLineNumAfter(part, acc.newLineNum)])
RECURSIVE DiffHtmlParts(_, _, _)
DiffHtmlParts(diffs, p, acc) ==
    IF p > Len(diffs) THEN acc
    ELSE DiffHtmlParts(diffs, p + 1,
            DiffHtmlLines(diffs[p], SplitLines(diffs[p].value), 1, acc))
CreateDiffHtml(diffs) ==
    DiffHtmlParts(diffs, 1, [html |-> <<>>, oldLineNum |-> 1, newLineNum |-> 1])

\* part_007 357-368: renderDiffs; currentConfig is the document object the
\* editor works on.
RenderDiffs(base, current) ==
    LET out == CreateDiffHtml(DiffLines(JsonLines(base), JsonLines(current)))
    IN /\ diffView' = out.html
       /\ lineNums' = <<out.oldLineNum, out.newLineNum>>

\* server.ts 176-197: GET /api/publisher/:filename/versions, the numbers in
\* descending order.
RECURSIVE Descending(_)
Descending(S) == IF S = {} THEN <<>> ELSE <<Max(S)>> \o Descending(S \ {Max(S)})
GetVersionsResponse(dirExists, h, readOk) ==
    IF ~dirExists THEN [status |-> 200, list |-> <<>>]
    ELSE IF readOk THEN [status |-> 200, list |-> Descending(DOMAIN h)]
    ELSE [status |-> 500, list |-> <<>>]

\* The body res.json() yields: the document, or the error object.
ResponseJson(resp) ==
    IF resp.status = 200 THEN Parse(Stringify(resp.doc))
    ELSE Obj(<<KV("error", Str(resp.error))>>)

\* The options of #version-select (part_007 310-325).
Options == {"current"} \cup {ToString(availableVersions[k]) : k \in 1..Len(availableVersions)}
VersionOf(option) == CHOOSE n \in 1..(MaxVersion + 1) : ToString(n) = option

MaxFetches == 2     \* requests of the compare view in flight at one time

\* object-field.ts 619-626 with part_007 190-213: the click on "Version
\* Compare" makes the view, which renders the diff of the baseline against
\* the document and asks for the versions.
OpenCompare ==
    /\ phase = "ready"
    /\ ~cmpOpen
    /\ cmpOpen' = TRUE
    /\ baseConfig' = initialConfig
    /\ selected' = "current"
    /\ availableVersions' = <<>>
    /\ RenderDiffs(baseConfig', publisherConfig)
    /\ fetches' = <<[url |-> "versions", option |-> ""]>>
    /\ fetchFailed' = FALSE
    /\ loaderMounted' = LoaderAfterRequest
    /\ UNCHANGED <<phase, publisherConfig, initialConfig, itemTemplate, rowIndex,
                   templateShared, jsonDisplay, dialogs, inflight, notice, nOps>>
    /\ UNCHANGED serverVars

\* part_007 287-305: the answer to the request for the versions.  networkOk =
\* FALSE is a fetch that rejects, readOk = FALSE a readdir that fails.
VersionsArrive(n, networkOk, readOk) ==
    /\ n \in 1..Len(fetches)
    /\ fetches[n].url = "versions"
    /\ LET res == GetVersionsResponse(histDir, hist, readOk)
           ok == networkOk /\ res.status = 200
       IN /\ availableVersions' =
                IF ok THEN (IF res.list # <<>> THEN Tail(res.list) ELSE <<>>)
                      ELSE availableVersions
          /\ selected' = IF ok THEN "current" ELSE selected
    /\ fetches' = RemoveAt(fetches, n)
    /\ loaderMounted' = LoaderAfterResponse(Len(fetches) - 1)
    /\ UNCHANGED <<cmpOpen, baseConfig, diffView, lineNums, fetchFailed>>
    /\ UNCHANGED <<phase, publisherConfig, initialConfig, itemTemplate, rowIndex,
                   templateShared, jsonDisplay, dialogs, inflight, notice, nOps>>
    /\ UNCHANGED serverVars

\* part_007 268-271 and 330-343: the change event of #version-select starts
\* handleVersionChange, which sends its request.
SelectVersion(option) ==
    /\ cmpOpen
    /\ option \in Options
    /\ option # selected
    /\ Len(fetches) < MaxFetches
    /\ selected' = option
    /\ fetches' = Append(fetches,
                         [url |-> IF option = "current" THEN "current" ELSE "version",
                          option |-> option])
    /\ loaderMounted' = LoaderAfterRequest
    /\ UNCHANGED <<cmpOpen, baseConfig, availableVersions, diffView, lineNums,
                   fetchFailed>>
    /\ UNCHANGED <<phase, publisherConfig, initialConfig, itemTemplate, rowIndex,
                   templateShared, jsonDisplay, dialogs, inflight, notice, nOps>>
    /\ UNCHANGED serverVars

\* A handleVersionChange that checks res.ok for "current" as well.
BaselineAssignedIfOk(url, networkOk, status) == networkOk /\ status = 200

\* part_007 331-351: whether handleVersionChange assigns this.baseConfig and
\* renders: for "current" whenever the fetch resolves, for a version when
\* res.ok.
BaselineAssigned(url, networkOk, status) ==
    networkOk /\ (url = "current" \/ status = 200)

\* part_007 330-352: the rest of handleVersionChange, when the request is
\* answered.  networkOk = FALSE is a fetch that rejects, readOk = FALSE a
\* readFile that fails in the handler of the server.
BaselineArrives(n, networkOk, readOk) ==
    /\ n \in 1..Len(fetches)
    /\ fetches[n].url \in {"current", "version"}
    /\ LET url == fetches[n].url
           res == IF url = "current"
                      THEN GetPublisherResponse(IF readOk THEN dataFile ELSE NoFile)
                  ELSE IF readOk
                      THEN GetVersionResponse(hist, VersionOf(fetches[n].option))
                  ELSE [status |-> 500, error |-> "Failed to fetch version content",
                        doc |-> Null]
           assigned == BaselineAssigned(url, networkOk, res.status)
       IN /\ baseConfig' = IF assigned THEN ResponseJson(res) ELSE baseConfig
          /\ IF assigned THEN RenderDiffs(baseConfig', publisherConfig)
                         ELSE UNCHANGED <<diffView, lineNums>>
          /\ fetchFailed' = (fetchFailed \/ ~(networkOk /\ res.status = 200))
    /\ fetches' = RemoveAt(fetches, n)
    /\ loaderMounted' = LoaderAfterResponse(Len(fetches) - 1)
    /\ UNCHANGED <<cmpOpen, selected, availableVersions>>
    /\ UNCHANGED <<phase, publisherConfig, initialConfig, itemTemplate, rowIndex,
                   templateShared, jsonDisplay, dialogs, inflight, notice, nOps>>
    /\ UNCHANGED serverVars

\* part_007 257-266 and 274-282: the close button, or a click on the overlay.
\* The view is discarded; the requests it still waits for are answered into
\* the discarded view, where they show nothing.
CloseCompare ==
    /\ cmpOpen
    /\ cmpOpen' = FALSE
    /\ baseConfig' = Null
    /\ selected' = "current"
    /\ availableVersions' = <<>>
    /\ fetches' = <<>>
    /\ diffView' = <<>>
    /\ lineNums' = <<1, 1>>
    /\ fetchFailed' = FALSE
    /\ loaderMounted' = IF fetches = <<>> THEN loaderMounted
                                          ELSE LoaderAfterResponse(0)
    /\ UNCHANGED <<phase, publisherConfig, initialConfig, itemTemplate, rowIndex,
                   templateShared, jsonDisplay, dialogs, inflight, notice, nOps>>
    /\ UNCHANGED serverVars

\* The store after one save of the file, and the editor about to load.
CompareInit ==
    /\ serverUp = TRUE
    /\ dataFile = JsonFile(DocA2)
    /\ histDir = TRUE
    /\ hist = (1 :> DocA) @@ (2 :> DocA2)
    /\ req = [r \in ReqIds |-> IdleReq]
    /\ lastResp = NoResp
    /\ maxReturned = 0
    /\ anyFailed = FALSE
    /\ origContent = JsonFile(DocA)
    /\ EditorIdle

CompareNext ==
    \/ \E networkOk \in BOOLEAN : LoadData(networkOk)
    \/ EditNext
    \/ OpenCompare
    \/ \E n \in 1..Len(fetches), networkOk \in BOOLEAN, readOk \in BOOLEAN :
          VersionsArrive(n, networkOk, readOk)
    \/ \E option \in Options : SelectVersion(option)
    \/ \E n \in 1..Len(fetches), networkOk \in BOOLEAN, readOk \in BOOLEAN :
          BaselineArrives(n, networkOk, readOk)
    \/ CloseCompare

CompareSpec == CompareInit /\ [][CompareNext]_vars

\* C7: a click on "Save Changes" while the serialized document equals the
\* serialized baseline sends no request, opens no dialog and shows "No changes
\* were made".
C7_NoChangeSaveIsNoOp ==
    [][ ( /\ SaveNoChanges \/ SaveAsk
          /\ Stringify(publisherConfig) = Stringify(initialConfig) )
        => ( /\ inflight' = inflight
             /\ dialogs' = dialogs
             /\ dataFile' = dataFile
             /\ notice' = "No changes were made" ) ]_vars

\* Two edits brought the document back to the loaded baseline, and the save
\* click that followed was answered with "No changes were made".
C7_Witness ==
    /\ nOps = 2
    /\ publisherConfig # Null
    /\ Stringify(initialConfig) = Stringify(DocA)
    /\ Stringify(publisherConfig) = Stringify(DocA)
    /\ notice = "No changes were made"

\* C8: right after the success response of a save, the baseline is the content
\* the store persisted for that save.
C8_BaselineIsPersisted ==
    notice = "Configuration saved successfully!" => JsonFile(initialConfig) = dataFile

\* C9: the failure of a save changes neither the baseline nor the document,
\* shows "Failed to save configuration." and sends nothing; a write request is
\* sent only by a Confirm click, one a click.
C9_FailedSaveChangesNothing ==
    [][ /\ ( \E n \in 1..Len(inflight), wrote \in BOOLEAN : PutFails(n, wrote) )
           => ( /\ initialConfig' = initialConfig
                /\ publisherConfig' = publisherConfig
                /\ notice' = "Failed to save configuration."
                /\ dialogs' = dialogs
                /\ Len(inflight') = Len(inflight) - 1 )
        /\ ( Len(inflight') > Len(inflight) )
           => ( /\ Confirm
                /\ Len(inflight') = Len(inflight) + 1 ) ]_vars

\* A save of a changed document has just failed: the document still differs
\* from the baseline and the error is on screen.
C9_Witness ==
    /\ notice = "Failed to save configuration."
    /\ HasChanges(publisherConfig, initialConfig)
    /\ inflight = <<>>

\* C10: every required-field key of the loaded document is a key of the
\* document in the editor.
C10_RequiredKeysKept ==
    publisherConfig # Null =>
        \A k \in Keys(origContent.doc) : IsRequired(k) => HasKey(publisherConfig, k)

\* An optional field was removed and the array under a required key emptied;
\* the required keys are all still there.
C10_Witness ==
    /\ publisherConfig # Null
    /\ nOps = 2
    /\ ~HasKey(publisherConfig, "opts")
    /\ HasKey(publisherConfig, "pages")
    /\ publisherConfig.kids[IndexOfKey(publisherConfig, "pages")].v.kids = <<>>
    /\ HasKey(publisherConfig, "publisherId")


\* C11: an add-field request whose trimmed key is empty, or already a key of the
\* target object, or (at the top level) one of the required names, even one
\* the document does not have, fails and leaves the document, and the form
\* rendered from it, exactly as before.
C11_InvalidAddRejected ==
    [][ /\ \A input \in KeyInputs, type \in FieldTypes :
              ( /\ AddField(input, type)
                /\ \/ Trim(input) = ""
                   \/ HasKey(publisherConfig, Trim(input))
                   \/ Trim(input) \in {"publisherId", "aliasName", "pages",
                                       "publisherDashboard", "monitorDashboard",
                                       "qaStatusDashboard"} )
              => ( /\ publisherConfig' = publisherConfig
                   /\ jsonDisplay' = jsonDisplay
                   /\ nOps' = nOps
                   /\ notice' # "" )
        /\ \A i \in 1..Len(publisherConfig.kids), input \in PropInputs :
              \A j \in 0..Len(publisherConfig.kids[i].v.kids) :
                  ( /\ AddProperty(i, j, input)
                    /\ \/ Trim(input) = ""
                       \/ HasKey(GetAt(publisherConfig, ObjectPath(i, j)),
                                 Trim(input)) )
                  => ( /\ publisherConfig' = publisherConfig
                       /\ jsonDisplay' = jsonDisplay
                       /\ nOps' = nOps ) ]_vars

\* The add of "aliasName", a required name the loaded document does not have,
\* was refused.
C11_Witness ==
    /\ publisherConfig # Null
    /\ ~HasKey(publisherConfig, "aliasName")
    /\ notice = "Cannot add a required field manually"

\* C12: a successful add of key k with type tag t appends exactly k with the
\* default of t ("" for string, 0 for number, false for boolean, the empty
\* list for array, the empty mapping for object) and leaves every other key and
\* value of the document as it was.
C12_AddInsertsDefault ==
    [][ LET default(type) ==
                CASE type = "string" -> Str("")
                  [] type = "number" -> Num("0")
                  [] type = "boolean" -> Bool(FALSE)
                  [] type = "array" -> Arr(<<>>)
                  [] type = "object" -> Obj(<<>>)
        IN /\ \A input \in KeyInputs, type \in FieldTypes :
                 ( /\ AddField(input, type)
                   /\ publisherConfig' # publisherConfig )
                 => publisherConfig' =
                       [publisherConfig EXCEPT
                          !.kids = Append(@, KV(Trim(input), default(type)))]
           /\ \A i \in 1..Len(publisherConfig.kids), input \in PropInputs :
                 \A j \in 0..Len(publisherConfig.kids[i].v.kids) :
                     ( /\ AddProperty(i, j, input)
                       /\ publisherConfig' # publisherConfig )
                     => LET obj == GetAt(publisherConfig, ObjectPath(i, j))
                        IN publisherConfig' =
                              SetAt(publisherConfig, ObjectPath(i, j),
                                    [obj EXCEPT !.kids =
                                        Append(@, KV(Trim(input), default("string")))])
      ]_vars

\* The number field "tag" was added to the loaded document and then a string
\* property "level" to its optional object.
C12_Witness ==
    /\ publisherConfig # Null
    /\ nOps = 2
    /\ publisherConfig =
          [DocA EXCEPT !.kids[3].v.kids = Append(@, KV("level", Str(""))),
                       !.kids = Append(@, KV("tag", Num("0")))]

\* The objects of a value and their keys, at every depth below objects; the
\* items of an array are left out (they come and go with "Add Item" and
\* "Remove Item").
RECURSIVE KeyShape(_)
KeyShape(v) ==
    IF v.t = "object"
        THEN [obj |-> TRUE,
              members |-> [i \in 1..Len(v.kids) |->
                              [k |-> v.kids[i].k, shape |-> KeyShape(v.kids[i].v)]]]
        ELSE [obj |-> FALSE, members |-> <<>>]

\* C13: in the value of a required field (mounted with isFixedStructure = true)
\* keys are never added or removed: whatever the user does, every object of
\* that subtree, at any depth, has the keys it had at load.
C13_FixedSubtreeKeysKept ==
    publisherConfig # Null =>
        \A i \in 1..Len(initialConfig.kids) :
            IsRequired(initialConfig.kids[i].k) =>
                /\ HasKey(publisherConfig, initialConfig.kids[i].k)
                /\ KeyShape(publisherConfig.kids[
                        IndexOfKey(publisherConfig, initialConfig.kids[i].k)].v)
                     = KeyShape(initialConfig.kids[i].v)

C15_RemoveItemByPosition ==
    [][ \A i \in 1..Len(rowIndex) :
          \A r \in 1..Len(rowIndex[i]) :
              RemoveItem(i, r) =>
                  LET a == publisherConfig.kids[i].v.kids
                      b == publisherConfig'.kids[i].v.kids
                  IN /\ Len(b) = Len(a) - 1
                     /\ \A j \in 1..Len(b) :
                           b[j] = IF j < r THEN a[j] ELSE a[j + 1]
                     /\ Len(rowIndex'[i]) = Len(b)
                     /\ \A j \in 1..Len(b) : rowIndex'[i][j] = j
      ]_vars

\* "Add Item" on the array [1, 0] and then "Remove Item" on its second row:
\* the 0 is gone, the 1 and the added item are left.
C15_Witness ==
    /\ publisherConfig # Null
    /\ nOps = 2
    /\ HasKey(publisherConfig, "sizes")
    /\ LET sizes == publisherConfig.kids[IndexOfKey(publisherConfig, "sizes")].v
       IN /\ Len(sizes.kids) = 2
          /\ sizes.kids[1].v = Num("1")
          /\ sizes.kids[2].v = Str("")

\* C16: "Add Item" on an array of length N, N = 0 included, leaves N+1 items,
\* the first N as they were and in their order; the new last item matches the
\* template of the field: with an object template it is an object with exactly
\* the template's keys, with another template a value of the template's kind,
\* and with no template (an array that was empty) the empty string.
C16_AddItemMatchesTemplate ==
    [][ \A i \in 1..Len(publisherConfig.kids) :
          AddItem(i) =>
              LET a == publisherConfig.kids[i].v.kids
                  b == publisherConfig'.kids[i].v.kids
                  tpl == itemTemplate'[i]
                  new == b[Len(b)].v
              IN /\ Len(b) = Len(a) + 1
                 /\ SubSeq(b, 1, Len(a)) = a
                 /\ IF tpl = Null THEN Len(a) = 0 /\ new = Str("")
                    ELSE IF tpl.t = "object"
                        THEN /\ new.t = "object"
                             /\ [l \in 1..Len(new.kids) |-> new.kids[l].k]
                                  = [l \in 1..Len(tpl.kids) |-> tpl.kids[l].k]
                    ELSE new.t = tpl.t
      ]_vars

\* Two items were added to the array of one page: three pages, each with the
\* key of the first.
C16_Witness ==
    /\ publisherConfig # Null
    /\ nOps = 2
    /\ HasKey(publisherConfig, "pages")
    /\ LET pages == publisherConfig.kids[IndexOfKey(publisherConfig, "pages")].v
       IN /\ Len(pages.kids) = 3
          /\ pages.kids[1].v = Obj(<<KV("pageType", Str("home"))>>)
          /\ \A j \in 2..3 : Keys(pages.kids[j].v) = {"pageType"}

\* C17: the item "Add Item" appends to a non-empty array is derived from the
\* last item the array has at that moment: after an object, an object with the
\* same keys whose scalar fields hold the zero value of their type ("" for a
\* string, 0 for a number, false for a boolean); after a primitive, the zero
\* value of its type.
C17_NewItemFromLastItem ==
    [][ LET zero(v) == CASE v.t = "number" -> Num("0")
                         [] v.t = "boolean" -> Bool(FALSE)
                         [] OTHER -> Str("")
            scalar(v) == v.t \in {"string", "number", "boolean"}
        IN \A i \in 1..Len(publisherConfig.kids) :
              ( AddItem(i) /\ publisherConfig.kids[i].v.kids # <<>> ) =>
                  LET a == publisherConfig.kids[i].v.kids
                      b == publisherConfig'.kids[i].v.kids
                      last == a[Len(a)].v
                      new == b[Len(b)].v
                  IN IF last.t = "object"
                         THEN /\ new.t = "object"
                              /\ Len(new.kids) = Len(last.kids)
                              /\ \A l \in 1..Len(last.kids) :
                                    /\ new.kids[l].k = last.kids[l].k
                                    /\ scalar(last.kids[l].v) =>
                                          new.kids[l].v = zero(last.kids[l].v)
                     ELSE scalar(last) => new = zero(last)
      ]_vars

\* C18: the classifier gives every value of the document one category:
\* boolean for a boolean, array for an array, the empty one included, object
\* for a mapping that is neither null nor an array, primitive for a string or
\* a number, and primitive, not object, for null.
C18_ClassifierTable ==
    publisherConfig # Null =>
        \A i \in 1..Len(publisherConfig.kids) :
            LET v == publisherConfig.kids[i].v
            IN /\ v.t = "boolean" => GetFieldType(v) = "boolean"
               /\ v.t = "array" => GetFieldType(v) = "array"
               /\ v.t = "object" => GetFieldType(v) = "object"
               /\ v.t \in {"string", "number"} => GetFieldType(v) = "primitive"
               /\ v.t = "null" => GetFieldType(v) = "primitive"
               /\ GetFieldType(v) \in {"boolean", "array", "object", "primitive"}

\* The form shows an object, a null, an empty array and a boolean side by
\* side.
C18_Witness ==
    /\ publisherConfig # Null
    /\ phase = "ready"
    /\ \E i \in 1..Len(publisherConfig.kids) :
          publisherConfig.kids[i].v.t = "object"
    /\ \E i \in 1..Len(publisherConfig.kids) : publisherConfig.kids[i].v = Null
    /\ \E i \in 1..Len(publisherConfig.kids) : publisherConfig.kids[i].v = Arr(<<>>)
    /\ \E i \in 1..Len(publisherConfig.kids) :
          publisherConfig.kids[i].v.t = "boolean"

\* C19: a PrimitiveField never changes the type of its value: whatever kind of
\* value it is mounted on, the value an edit writes back has the type of the
\* value it replaces.
C19_EditKeepsType ==
    [][ \A i \in 1..Len(publisherConfig.kids), typed \in Typed :
          /\ EditPrimitive(<<i>>, typed) =>
                TypeOf(GetAt(publisherConfig', <<i>>))
                    = TypeOf(GetAt(publisherConfig, <<i>>))
          /\ \A j \in 1..Len(publisherConfig.kids[i].v.kids) :
                /\ EditPrimitive(<<i, j>>, typed) =>
                      TypeOf(GetAt(publisherConfig', <<i, j>>))
                          = TypeOf(GetAt(publisherConfig, <<i, j>>))
                /\ \A l \in 1..Len(publisherConfig.kids[i].v.kids[j].v.kids) :
                      EditPrimitive(<<i, j, l>>, typed) =>
                          TypeOf(GetAt(publisherConfig', <<i, j, l>>))
                              = TypeOf(GetAt(publisherConfig, <<i, j, l>>))
      ]_vars

\* C20: every document the editor holds, after whatever the user did, is equal
\* to what parsing its serialization gives, so that the content sent to the
\* store is the document in memory.
C20_RoundTrip ==
    publisherConfig # Null => Parse(Stringify(publisherConfig)) = publisherConfig

\* C24: saves are serialized: whatever the clicks on "Save Changes" and on the
\* Confirm button of the dialog, at no time are two PUT requests for the
\* document in flight.
C24_OneSaveInFlight == Len(inflight) <= 1

\* C25: the loader overlay is mounted in every state in which a request sent
\* through the API client has not been answered yet, also when two requests
\* overlap and one of them is answered first.
C25_OverlayWhileInFlight == Len(inflight) > 0 => loaderMounted

\* C26: when the initial load fails (the file is unknown or does not parse, or
\* the fetch rejects) the editor holds no document and mounts no form, and
\* from then on no step of the session opens a save dialog or sends a write
\* to the store.
C26_FailedLoadHoldsNothing ==
    [][ /\ \A networkOk \in BOOLEAN :
              ( LoadData(networkOk) /\ (~networkOk \/ dataFile.st # "json") )
              => ( /\ publisherConfig' = Null
                   /\ initialConfig' = Null
                   /\ itemTemplate' = <<>>
                   /\ rowIndex' = <<>>
                   /\ jsonDisplay' = <<>> )
        /\ ( phase = "ready" /\ publisherConfig = Null )
              => ( /\ publisherConfig' = Null
                   /\ dialogs' = 0
                   /\ inflight' = <<>>
                   /\ dataFile' = dataFile )
      ]_vars

\* The file did not parse, the load failed, and a click on "Save Changes" was
\* answered with "No changes were made".
C26_Witness ==
    /\ phase = "ready"
    /\ dataFile = BadFile
    /\ publisherConfig = Null
    /\ inflight = <<>>
    /\ notice = "No changes were made"

\* C27: the JSON preview is in sync with the document: after every edit (of a
\* value at any depth, add or remove of an optional or nested field, add or
\* remove of an array item) its text is the serialization of the document in
\* memory, indented by two spaces.
C27_PreviewInSync ==
    ( phase = "ready" /\ publisherConfig # Null )
        => jsonDisplay = JsonLines(publisherConfig)

\* A value inside an object item was edited and an item was added to another
\* array; the preview shows both.
C27_Witness ==
    /\ publisherConfig # Null
    /\ nOps = 2
    /\ Keys(publisherConfig) = {"sizes", "tags", "isActive"}
    /\ Len(publisherConfig.kids[1].v.kids) = 3
    /\ Len(publisherConfig.kids[2].v.kids) = 2
    /\ GetAt(publisherConfig, <<2, 1, 1>>) = Str("7")
    /\ Len(jsonDisplay) = 16
    /\ jsonDisplay[5] = Line(2, Stringify(Str("")))
    /\ jsonDisplay[9] = Line(3, <<Tok("str", "name"), Tok(":", "")>> \o Stringify(Str("7")))

C21_CountersMatchTexts ==
    [][ ( /\ cmpOpen'
          /\ ~cmpOpen \/ baseConfig' # baseConfig \/ diffView' # diffView )
        => /\ lineNums'[1] - 1 = Len(JsonLines(baseConfig'))
           /\ lineNums'[2] - 1 = Len(JsonLines(publisherConfig'))
           /\ lineNums'[1] - 1 =
                Cardinality({k \in 1..Len(diffView') : diffView'[k].class # "added"})
           /\ lineNums'[2] - 1 =
                Cardinality({k \in 1..Len(diffView') : diffView'[k].class # "removed"})
      ]_vars

\* The diff of version 1 against an edited document with more lines has been
\* rendered: it has unchanged, removed and added lines.
C21_Witness ==
    /\ cmpOpen
    /\ selected = "1"
    /\ baseConfig = DocA
    /\ lineNums[1] = Len(JsonLines(DocA)) + 1
    /\ lineNums[2] > lineNums[1]
    /\ lineNums[2] = Len(JsonLines(publisherConfig)) + 1
    /\ \A c \in {"unchanged", "removed", "added"} :
          \E k \in 1..Len(diffView) : diffView[k].class = c

\* The text of the line numbers of the k-th rendered line, from the kinds of
\* the lines before it.
C22_NumbersOf(k) ==
    LET old == 1 + Cardinality({j \in 1..(k - 1) : diffView[j].class # "added"})
        new == 1 + Cardinality({j \in 1..(k - 1) : diffView[j].class # "removed"})
    IN IF diffView[k].class = "added" THEN ToString(new)
       ELSE IF diffView[k].class = "removed" THEN ToString(old)
       ELSE ToString(old) \o "  " \o ToString(new)
C22_PrefixOf(class) ==
    IF class = "added" THEN "+ " ELSE IF class = "removed" THEN "- " ELSE "  "

\* C22: every line of the rendered diff carries its classification, its
\* content-prefix marker and its line number(s).
C22_LinesCarryNumbers ==
    cmpOpen =>
        \A k \in 1..Len(diffView) :
            /\ diffView[k].class \in {"added", "removed", "unchanged"}
            /\ diffView[k].number \in
                  {C22_NumbersOf(k),
                   C22_PrefixOf(diffView[k].class) \o C22_NumbersOf(k),
                   C22_NumbersOf(k) \o C22_PrefixOf(diffView[k].class)}

\* The document a baseline option stands for.
C23_BaselineOf(option) ==
    IF option = "current" THEN dataFile.doc ELSE hist[VersionOf(option)]

\* C23: when the last of the baseline requests of the view is answered, and
\* all were answered with success, the baseline is that of the option
\* selected last.
C23_LastRequestWins ==
    [][ ( /\ \E n \in 1..Len(fetches), networkOk \in BOOLEAN, readOk \in BOOLEAN :
                BaselineArrives(n, networkOk, readOk)
          /\ \A n \in 1..Len(fetches') : fetches'[n].url = "versions"
          /\ ~fetchFailed' )
        => baseConfig' = C23_BaselineOf(selected') ]_vars

\* C28: a baseline request that is answered without success, or rejects,
\* leaves the baseline and the rendered diff as they were.
C28_FailedFetchKeepsView ==
    [][ \A n \in 1..MaxFetches, networkOk \in BOOLEAN, readOk \in BOOLEAN :
          ( /\ n <= Len(fetches)
            /\ ~networkOk \/ ~readOk
            /\ BaselineArrives(n, networkOk, readOk) )
          => /\ baseConfig' = baseConfig
             /\ diffView' = diffView
             /\ lineNums' = lineNums ]_vars

Delivered == lastResp = NoResp

Next ==
    \/ (Delivered /\ StartServer /\ UNCHANGED <<editorVars, cmpVars>>)
    \/ (Delivered /\ StopServer /\ UNCHANGED <<editorVars, cmpVars>>)
    \/ (GetPublisher /\ UNCHANGED <<editorVars, cmpVars>>)
    \/ (\E n \in 1..MaxVersion : GetVersion(n) /\ UNCHANGED <<editorVars, cmpVars>>)
    \/ (GetDone /\ UNCHANGED <<editorVars, cmpVars>>)
    \/ (\E r \in ReqIds, doc \in Bodies :
            Delivered /\ PutBegin(r, doc) /\ UNCHANGED <<editorVars, cmpVars>>)
    \/ (\E r \in ReqIds : Delivered /\ PutReaddir(r) /\ UNCHANGED <<editorVars, cmpVars>>)
    \/ (\E r \in ReqIds : Delivered /\ PutWriteMain(r) /\ UNCHANGED <<editorVars, cmpVars>>)
    \/ (\E r \in ReqIds : Delivered /\ PutWriteHist(r) /\ UNCHANGED <<editorVars, cmpVars>>)
    \/ (\E r \in ReqIds : Delivered /\ PutWriteFails(r) /\ UNCHANGED <<editorVars, cmpVars>>)
    \/ (\E r \in ReqIds : Delivered /\ PutDone(r) /\ UNCHANGED <<editorVars, cmpVars>>)

Spec == Init /\ [][Next]_vars
====
